---- MODULE Spec2Model ----
(***************************************************************************)
(* Model of wasm-web-components: the code generated by #[web_component]    *)
(* (macros/src/lib.rs) running against the host's custom element registry. *)
(*                                                                         *)
(* The host is single threaded.  Control is a call stack: the callers of   *)
(* the API are the application at top level (stack = <<>>) and the user's  *)
(* WebComponentBinding handlers, which run inside a hook frame and may     *)
(* call back into the API or the DOM before they return.                   *)
(*                                                                         *)
(* SpecRegistry has the operations of registration (define, define_once,   *)
(* the upgrade and construction of elements); SpecLifecycle has those of   *)
(* the lifecycle of the elements of registered components.                 *)
(***************************************************************************)
EXTENDS Naturals, Sequences, FiniteSets, TLC

\* ------------------------------------------------------------------ bounds
MaxElems == 1
MaxCalls == 3
MaxLen == 3

\* ------------------------------------------------------------ configuration
Types == {"A", "B"}
Names == {"x-one", "x-two"}
Attrs == {"class", "id"}
Vals == {"foo"}
None == "None"

\* ------------------------------------------------- strings and literals
\* Strings are sequences of characters.  The characters of the declarations
\* that are expanded: upper case and lower case letters, and characters that
\* are not alphanumeric.
LowerOf == [A |-> "a", E |-> "e", T |-> "t"]
UpperChars == DOMAIN LowerOf
LowerChars == {"a", "b", "d", "e", "h", "i", "l", "m", "n", "o", "r", "s", "t"}
Quote == "\""

IsUppercase(c) == c \in UpperChars
IsLowercase(c) == c \in LowerChars
IsAlphanumeric(c) == IsUppercase(c) \/ IsLowercase(c)

ToLowercaseChar(c) == IF IsUppercase(c) THEN LowerOf[c] ELSE c

\* str::to_lowercase
ToLowercase(s) == [i \in 1..Len(s) |-> ToLowercaseChar(s[i])]

\* Inflector, trim_right: the string without its trailing characters that
\* are not alphanumeric.
RECURSIVE TrimRight(_)
TrimRight(s) ==
    IF s = <<>> THEN s
    ELSE IF IsAlphanumeric(s[Len(s)]) THEN s
    ELSE TrimRight(SubSeq(s, 1, Len(s) - 1))

\* Inflector, next_or_previous_char_is_lowercase: the neighbours of
\* character i in the whole string, a missing neighbour counting as 'A'.
NextOrPreviousCharIsLowercase(s, i) ==
    \/ i + 1 <= Len(s) /\ IsLowercase(s[i + 1])
    \/ i - 1 >= 1 /\ IsLowercase(s[i - 1])

\* Inflector, to_case_snake_like(s, "-", "lower"): the loop over the
\* characters of trim_right(s), from character i on, with the result so far
\* and the flag first_character.
RECURSIVE SnakeLike(_, _, _, _, _)
SnakeLike(s, trimmed, i, result, first) ==
    IF i > Len(trimmed) THEN result
    ELSE LET c == trimmed[i] IN
         IF ~IsAlphanumeric(c)
         THEN IF first THEN SnakeLike(s, trimmed, i + 1, result, TRUE)
              ELSE SnakeLike(s, trimmed, i + 1, Append(result, "-"), TRUE)
         ELSE IF ~first /\ IsUppercase(c) /\ NextOrPreviousCharIsLowercase(s, i)
         THEN SnakeLike(s, trimmed, i + 1, result \o <<"-", ToLowercaseChar(c)>>, FALSE)
         ELSE SnakeLike(s, trimmed, i + 1, Append(result, ToLowercaseChar(c)), FALSE)

\* Inflector::to_kebab_case
ToKebabCase(s) == SnakeLike(s, TrimRight(s), 1, <<>>, TRUE)

\* LitStr::new(value, span).token(), and the token of a string literal of
\* the attribute: Literal::to_string() is the literal as written in source,
\* its value between double quotes (no character here needs an escape).
LitStrToken(value) == <<Quote>> \o value \o <<Quote>>

\* The value of a literal token that is spliced into the generated code.
LiteralValue(token) == SubSeq(token, 2, Len(token) - 1)

\* An optional argument of the attribute: {} when it is not given.
IsSome(opt) == opt # {}
Unwrap(opt) == CHOOSE v \in opt : TRUE

\* get_class_and_element_names, in the order of its statements.
ResolveClassNameMut(args, struct_name) == LitStrToken(ToLowercase(struct_name))
ResolveClassName(args, struct_name) ==
    IF IsSome(args.class_name) THEN LitStrToken(Unwrap(args.class_name))
    ELSE LitStrToken(struct_name)

ResolveElementNameMut(args, class_name) ==
    LitStrToken(ToLowercase(ToKebabCase(class_name)))
ResolveElementName(args, class_name) ==
    IF IsSome(args.element_name) THEN LitStrToken(Unwrap(args.element_name))
    ELSE LitStrToken(ToLowercase(ToKebabCase(class_name)))

ResolveBaseClass(args) ==
    IF IsSome(args.base_class) THEN LitStrToken(Unwrap(args.base_class))
    ELSE LitStrToken(<<"H", "T", "M", "L", "E", "l", "e", "m", "e", "n", "t">>)

ResolveObservedMut(opt) == LitStrToken(<<"[", "class", "click", "]">>)
ResolveObserved(opt) ==
    IF IsSome(opt) THEN LitStrToken(Unwrap(opt)) ELSE LitStrToken(<<"[", "]">>)

\* return {observed_attributes}; and return {observed_events}; in the shim
\* class: the names between the brackets of the array that was spliced in.
EvalJsArray(src) == {src[i] : i \in 2..(Len(src) - 1)}

\* #[web_component(observed_attrs = "['class']")] on A, no override on B:
\* observed_attributes is then the literal "[]".
ObservedAttrsArg(t) == IF t = "A" THEN {<<"[", "class", "]">>} ELSE {}
ObservedAttrs(t) == EvalJsArray(LiteralValue(ResolveObserved(ObservedAttrsArg(t))))

\* #[web_component(observed_events = "['click']")] on A, no override on B.
Events == {"click"}
ObservedEventsArg(t) == IF t = "A" THEN {<<"[", "click", "]">>} ELSE {}
ObservedEvents(t) == EvalJsArray(LiteralValue(ResolveObserved(ObservedEventsArg(t))))

VARIABLES
    element_name,   \* [Types -> Names]: the resolved element_name() of each type
    registry,       \* the host's CustomElementRegistry: a set of definitions
    once,           \* [Types -> state of the type's static std::sync::Once]
    elems,          \* [Elems -> element record]
    stack,          \* the call stack, innermost frame last
    hung,           \* TRUE when the thread is blocked for ever
    firstDefine,    \* history: [Names -> result of the first define() for the name]
    defineViaOnce,  \* history: [Types -> number of define() runs made by define_once()]
    onceCalled,     \* history: [Types -> define_once() has been called]
    onceResult,     \* history: [Types -> result of the define() run by define_once()]
    ev,             \* history: the registration call the last step made, if any
    gen,            \* the generator (SpecGenerator): a declaration and its expansion
    fx,             \* two components under the same callbacks (SpecForms)
    tpl,            \* the template types: their OnceLocks and the document body
    host            \* [window, body]: the host has a window, its document a body

vars == <<element_name, registry, once, elems, stack, hung, firstDefine,
          defineViaOnce, onceCalled, onceResult, ev, gen, fx, tpl, host>>

hist == <<firstDefine, defineViaOnce, onceCalled, onceResult>>

\* What no operation of the running program changes.
static == <<element_name, gen, fx, tpl, host>>

\* The state of the running program.
runtime == <<registry, once, elems, stack, hung, hist, ev>>

\* ------------------------------------------------------------------ helpers
Elems == DOMAIN elems

\* An element: its tag, its custom element state st (none: not created,
\* undefined, constructing, custom, failed), the type of its instance, conn
\* (it is in a document), its attributes, borrowed (the WasmRefCell of its
\* instance is mutably borrowed), shadow (none, or the mode of the shadow
\* root attached to it), and the event names for which the shim's listener
\* is on the element itself (lself) and on its shadow root (lshadow), and
\* inst, the instance in its _impl property (0: it has none).
NoElem == [tag |-> None, st |-> "none", typ |-> None, conn |-> FALSE,
           attrs |-> [a \in Attrs |-> None], borrowed |-> FALSE,
           shadow |-> "none", lself |-> {}, lshadow |-> {}, inst |-> 0]

\* A frame is a running define() (kind define: todo are the elements the
\* host has yet to upgrade) or a running *_impl (kind hook: form is the form
\* of the handler that runs, seen the calls made so far, rest the reactions
\* the host runs next, inst the instance whose method it is).
NoFrame == [kind |-> "none", t |-> None, viaOnce |-> FALSE, first |-> FALSE,
            ofirst |-> FALSE, todo |-> <<>>, e |-> 0, hook |-> None, args |-> <<>>,
            form |-> 0, seen |-> <<>>, rest |-> <<>>, inst |-> 0]

\* What a registration call did: op is the call (define, define_once), t the
\* type, res what the call returned (Pending: define() has registered the
\* class and the host is upgrading elements); for define(): first says it
\* was the first define() for its name, via that define_once() ran it, ores
\* how that define_once() ended, ofirst that it was the type's first
\* define_once() call, handle the WebComponentHandle of an Ok, and script
\* that define() got as far as building the factory closure and running the
\* script of the shim class.  Under SpecEvents it also records the delivery of an
\* event (op deliver: of name n to target tg of element e).  Every other
\* step resets it.
NoEv == [op |-> "none", t |-> None, res |-> None, first |-> FALSE,
         via |-> FALSE, ores |-> None, ofirst |-> FALSE,
         e |-> 0, n |-> None, tg |-> None, handle |-> None, script |-> FALSE]

Top == stack[Len(stack)]
Pop(s) == SubSeq(s, 1, Len(s) - 1)

\* The API and the DOM are called by the application at top level or by a
\* handler that is running.
CanIssue ==
    /\ ~hung
    /\ IF stack = <<>> THEN TRUE ELSE Top.kind = "hook"

\* registry.get(name): the definitions registered under name; the empty set
\* is the falsy undefined.
RegistryGetMut(reg, n) == {}
RegistryGet(reg, n) == {d \in reg : d.name = n}

Definition(reg, n) == CHOOSE d \in reg : d.name = n

\* if maybe_element.is_truthy() { return Err(...) }
AlreadyDefinedMut(t) == FALSE
AlreadyDefined(t) == RegistryGet(registry, element_name[t]) # {}

\* name = Self::class_name(): A and B are declared without a class_name
\* override, their class name is the name of the struct.
ClassName(t) == t

\* customElements.define(element_name, class): the class is evaluated from
\* the format! arguments of this type.
ShimClass(t) == [name |-> element_name[t], typ |-> t, observed |-> ObservedAttrs(t),
                 events |-> ObservedEvents(t), cls |-> ClassName(t)]

CustomElementsDefineMut(reg, t) == reg
CustomElementsDefine(reg, t) == reg \cup {ShimClass(t)}

\* var element = customElements.get(element_name); return element; and then
\* Ok(WebComponentHandle { element_constructor: element })
Handle(reg, t) == [element_constructor |-> RegistryGet(reg, element_name[t])]

\* The elements the host upgrades when a name gets defined: the connected
\* elements of that name that have no definition yet, in document order.
RECURSIVE SeqOf(_)
SeqOf(S) == IF S = {} THEN <<>>
            ELSE LET m == CHOOSE x \in S : \A y \in S : x <= y
                 IN <<m>> \o SeqOf(S \ {m})

UpgradeCandidates(n) ==
    SeqOf({e \in Elems : elems[e].tag = n /\ elems[e].st = "undefined" /\ elems[e].conn})

\* ------------------------------------------------- the two-phase dispatcher
\* self.hook(element, ..); self.hook_mut(element, ..);
FormOrderMut == <<"mut", "ro">>
FormOrder == <<"ro", "mut">>

\* attribute_changed(.., name.clone(), old_value.clone(), new_value.clone())
\* then attribute_changed_mut(.., name, old_value, new_value): form i is
\* handed these values of the callback's arguments.
FormArgs(args, i) == args

Call(f, i) == [form |-> FormOrder[i], e |-> f.e, args |-> FormArgs(f.args, i)]

HookFrame(e, hook, args, rest) ==
    LET f == [NoFrame EXCEPT !.kind = "hook", !.e = e, !.hook = hook,
                             !.args = args, !.form = 1, !.rest = rest]
    IN [f EXCEPT !.seen = <<Call(f, 1)>>]

\* this._impl of element e
Receiver(els, e) == els[e].inst

\* impl(), called by the constructor that runs for element e: the factory
\* closure returns Self::new(), an instance that did not exist before.
\* Instances are named after the constructor run that made them.
ImplMut(e) == 0
Impl(e) == e

\* this._impl.<hook>_impl(this, ..) is an exported &mut self method:
\* wasm-bindgen lets it in when the instance is not borrowed, and throws
\* otherwise.
BorrowMutMut(el) == TRUE
BorrowMut(el) == ~el.borrowed

\* The host runs the callback reactions rs = <<[e, hook, args], ...>> in
\* order; the shim forwards each to its *_impl.  A callback that throws is
\* reported and the host goes on with the next.
\* Result: the stack and elements once control is in user code again.
RECURSIVE Dispatch(_, _, _)
Dispatch(stk, els, rs) ==
    IF rs = <<>> THEN [stack |-> stk, elems |-> els]
    ELSE LET r == Head(rs) IN
         IF ~BorrowMut(els[r.e])
         THEN Dispatch(stk, els, Tail(rs))
         ELSE [stack |-> Append(stk, [HookFrame(r.e, r.hook, r.args, Tail(rs))
                                         EXCEPT !.inst = Receiver(els, r.e)]),
               elems |-> [els EXCEPT ![r.e].borrowed = TRUE]]

Reaction(e, hook, args) == [e |-> e, hook |-> hook, args |-> args]

\* ------------------------------------------------------------------- Init
\* No component is defined and no element exists.  A and B have distinct
\* element names, or B's element_name override names A's element.
NothingDefined ==
    /\ registry = {}
    /\ once = [t \in Types |-> "Incomplete"]
    /\ stack = <<>>
    /\ hung = FALSE
    /\ firstDefine = [n \in Names |-> "None"]
    /\ defineViaOnce = [t \in Types |-> 0]
    /\ onceCalled = [t \in Types |-> FALSE]
    /\ onceResult = [t \in Types |-> "None"]
    /\ ev = NoEv

Fresh ==
    /\ NothingDefined
    /\ elems = [e \in 1..MaxElems |-> NoElem]

\* Nothing is being generated or compared.
NoGen == [phase |-> "none"]
NoFx == [phase |-> "none"]
NoTpl == [phase |-> "none"]

\* The host: a window whose document has a body.
HostPresent == [window |-> TRUE, body |-> TRUE]
Idle == gen = NoGen /\ fx = NoFx /\ tpl = NoTpl /\ host = HostPresent

InitRegistry ==
    /\ element_name \in {f \in [Types -> Names] : f["A"] = "x-one"}
    /\ Fresh
    /\ Idle

InitLifecycle ==
    /\ element_name = [t \in Types |-> IF t = "A" THEN "x-one" ELSE "x-two"]
    /\ Fresh
    /\ Idle

\* ------------------------------------------------------------ registration
\* Once::call_once runs its closure when the Once is in this state.
RunsClosureMut(s) == s # "Running"
RunsClosure(s) == s = "Incomplete"

\* The state of the Once while its closure runs (it is Complete only after
\* the closure has returned).
StateWhileRunningMut == "Complete"
StateWhileRunning == "Running"

\* let _ = Self::define();  the closure drops define()'s result and
\* define_once() returns ("ok", "err": returned after that result).
SwallowMut(res) == IF res = "Ok" THEN "ok" ELSE "propagated"
Swallow(res) == IF res = "Ok" THEN "ok" ELSE "err"

\* A call of call_once made while the same Once runs its closure: std leaves
\* the outcome open between a panic and a deadlock.
ReentrantOutcomes == {"panic", "deadlock"}

\* The Onces after a step of define() of t: only call_once, in define_once()
\* (viaOnce), moves the Once of t, to state s; define() has no access to it.
OnceAfterMut(o, t, viaOnce, s) == [o EXCEPT ![t] = s]
OnceAfterShared(o, t, viaOnce, s) == IF viaOnce THEN [u \in Types |-> s] ELSE o
OnceAfter(o, t, viaOnce, s) == IF viaOnce THEN [o EXCEPT ![t] = s] ELSE o

DefineFrame(t, viaOnce, first, ofirst, todo) ==
    [NoFrame EXCEPT !.kind = "define", !.t = t, !.viaOnce = viaOnce,
                    !.first = first, !.ofirst = ofirst, !.todo = todo]

\* define() returns res: the early return comes before the script and the
\* factory closure are made (Function::new_with_args, Closure::wrap, call1).
RunsScriptMut(res) == TRUE
RunsScript(res) == res # "AlreadyDefined"

DefineEv(t, res, first, via, ofirst) ==
    [NoEv EXCEPT !.op = "define", !.t = t, !.res = res, !.first = first, !.via = via,
                 !.ores = IF ~via THEN None ELSE IF res = "Pending" THEN "running"
                          ELSE Swallow(res),
                 !.ofirst = ofirst,
                 !.handle = IF res = "Ok" THEN Handle(registry, t) ELSE None,
                 !.script = RunsScript(res)]

\* The body of define(), up to the point where the host starts to upgrade
\* elements: the lookup, the early return, customElements.define (which
\* throws NotSupportedError for a name it has, and define() returns the Err).
DoDefine(t, viaOnce) ==
    LET n == element_name[t]
        first == firstDefine[n] = "None"
        ofirst == viaOnce /\ ~onceCalled[t]
        res == IF AlreadyDefined(t) THEN "AlreadyDefined"
               ELSE IF RegistryGet(registry, n) # {} THEN "NotSupported"
               ELSE "Pending"
    IN /\ firstDefine' = IF first THEN [firstDefine EXCEPT ![n] = res] ELSE firstDefine
       /\ onceResult' = IF viaOnce THEN [onceResult EXCEPT ![t] = res] ELSE onceResult
       /\ ev' = DefineEv(t, res, first, viaOnce, ofirst)
       /\ IF res = "Pending"
          THEN /\ registry' = CustomElementsDefine(registry, t)
               /\ stack' = Append(stack, DefineFrame(t, viaOnce, first, ofirst,
                                                     UpgradeCandidates(n)))
               /\ once' = OnceAfter(once, t, viaOnce, StateWhileRunning)
          ELSE /\ registry' = registry
               /\ stack' = stack
               /\ once' = OnceAfter(once, t, viaOnce, "Complete")

\* T::define()
Define(t) ==
    /\ CanIssue
    /\ DoDefine(t, FALSE)
    /\ UNCHANGED <<static, elems, hung, defineViaOnce, onceCalled>>

\* T::define_once(), the closure runs.
DefineOnceRun(t) ==
    /\ CanIssue
    /\ RunsClosure(once[t])
    /\ defineViaOnce[t] < 2
    /\ defineViaOnce' = [defineViaOnce EXCEPT ![t] = @ + 1]
    /\ onceCalled' = [onceCalled EXCEPT ![t] = TRUE]
    /\ DoDefine(t, TRUE)
    /\ UNCHANGED <<static, elems, hung>>

OnceEv(t, res) ==
    [NoEv EXCEPT !.op = "define_once", !.t = t, !.res = res, !.ofirst = ~onceCalled[t]]

\* T::define_once(), the Once is Complete.
DefineOnceNoop(t) ==
    /\ CanIssue
    /\ ~RunsClosure(once[t])
    /\ once[t] = "Complete"
    /\ ev' = OnceEv(t, "noop")
    /\ onceCalled' = [onceCalled EXCEPT ![t] = TRUE]
    /\ UNCHANGED <<static, registry, once, elems, stack, hung, firstDefine,
                   defineViaOnce, onceResult>>

\* An exception (a panic is a trap, which the host sees as an exception)
\* leaves the running handler: no destructor runs, so the instance stays
\* borrowed.  The host reports it at the callback it invoked, or at top
\* level when the application made the call; a throwing
\* constructor leaves the element failed, with its reactions dropped.
Throw(stk, els) ==
    IF stk = <<>> THEN [stack |-> stk, elems |-> els] ELSE
    LET f == stk[Len(stk)] IN
    IF f.hook = "init"
    THEN [stack |-> Pop(stk), elems |-> [els EXCEPT ![f.e].st = "failed"]]
    ELSE Dispatch(Pop(stk), els, f.rest)

\* T::define_once() called while the closure of the same Once is running.
DefineOnceReentrant(t) ==
    /\ CanIssue
    /\ ~RunsClosure(once[t])
    /\ once[t] = "Running"
    /\ \E o \in ReentrantOutcomes :
        /\ ev' = OnceEv(t, o)
        /\ IF o = "deadlock"
           THEN hung' = TRUE /\ UNCHANGED <<stack, elems>>
           ELSE /\ hung' = hung
                /\ stack' = Throw(stack, elems).stack
                /\ elems' = Throw(stack, elems).elems
    /\ onceCalled' = [onceCalled EXCEPT ![t] = TRUE]
    /\ UNCHANGED <<static, registry, once, firstDefine, defineViaOnce, onceResult>>

\* The constructor of the shim class: this._impl = impl(); then
\* this._impl.init_impl(this), which holds the instance's borrow.
StartConstructMut(stk, els, e, t, rest) ==
    Dispatch(stk, [els EXCEPT ![e].st = "custom", ![e].typ = t], rest)
StartConstructListening(stk, els, e, t, rest) ==
    [stack |-> Append(stk, [HookFrame(e, "init", <<>>, rest) EXCEPT !.inst = Impl(e)]),
     elems |-> [els EXCEPT ![e].st = "constructing", ![e].typ = t,
                           ![e].borrowed = TRUE, ![e].inst = Impl(e),
                           ![e].lself = ObservedEvents(t)]]
StartConstruct(stk, els, e, t, rest) ==
    [stack |-> Append(stk, [HookFrame(e, "init", <<>>, rest) EXCEPT !.inst = Impl(e)]),
     elems |-> [els EXCEPT ![e].st = "constructing", ![e].typ = t,
                           ![e].borrowed = TRUE, ![e].inst = Impl(e)]]

ConnectedReaction(els, e) ==
    IF els[e].conn THEN <<Reaction(e, "connected", <<>>)>> ELSE <<>>

\* customElements.define upgrades the next candidate.
DefineUpgrade ==
    /\ ~hung /\ stack # <<>> /\ Top.kind = "define" /\ Top.todo # <<>>
    /\ LET e == Head(Top.todo)
           stk == [stack EXCEPT ![Len(stack)].todo = Tail(@)]
           r == IF elems[e].st = "undefined"
                THEN StartConstruct(stk, elems, e, Top.t, ConnectedReaction(elems, e))
                ELSE [stack |-> stk, elems |-> elems]
       IN stack' = r.stack /\ elems' = r.elems
    /\ ev' = NoEv
    /\ UNCHANGED <<static, registry, once, hung, hist>>

\* define() returns Ok(handle); under define_once() the Once completes.
DefineReturn ==
    /\ ~hung /\ stack # <<>> /\ Top.kind = "define" /\ Top.todo = <<>>
    /\ LET f == Top
           n == element_name[f.t]
       IN /\ stack' = Pop(stack)
          /\ firstDefine' = IF f.first THEN [firstDefine EXCEPT ![n] = "Ok"] ELSE firstDefine
          /\ once' = OnceAfter(once, f.t, f.viaOnce, "Complete")
          /\ onceResult' = IF f.viaOnce THEN [onceResult EXCEPT ![f.t] = "Ok"] ELSE onceResult
          /\ ev' = DefineEv(f.t, "Ok", f.first, f.viaOnce, f.ofirst)
    /\ UNCHANGED <<static, registry, elems, hung, defineViaOnce, onceCalled>>

\* ------------------------------------------------------------- dispatcher
\* The read-only form has returned: *_impl calls the mutating form.
HookNextForm ==
    /\ ~hung /\ stack # <<>> /\ Top.kind = "hook" /\ Top.form < Len(FormOrder)
    /\ stack' = [stack EXCEPT ![Len(stack)] =
                    [@ EXCEPT !.form = @ + 1, !.seen = Append(@, Call(Top, Top.form + 1))]]
    /\ ev' = NoEv
    /\ UNCHANGED <<static, registry, once, elems, hung, hist>>

\* static observedEvents(): the list the class was formatted with.
ObservedEventsAccessor(def) == def.events

\* self.shadowRoot: the element's shadow root if it has an open one, null
\* (None) if it has none or a closed one.
ShadowRootProperty(el) == IF el.shadow = "open" THEN "shadowRoot" ELSE None

\* if (self.shadowRoot) { .. self.shadowRoot.addEventListener(t, ..) }
\* else { .. self.addEventListener(t, ..) }, t of this.observedEvents()
AddEventListeners(el, def) ==
    IF ShadowRootProperty(el) # None
    THEN [el EXCEPT !.lshadow = @ \cup ObservedEventsAccessor(def)]
    ELSE [el EXCEPT !.lself = @ \cup ObservedEventsAccessor(def)]

\* The rest of the constructor, after init_impl has returned.
EndConstruct(el, def) == [AddEventListeners(el, def) EXCEPT !.st = "custom"]

\* The last form has returned: *_impl returns and releases the borrow; the
\* constructor ends; the host goes on with the reactions it has queued.
HookReturn ==
    /\ ~hung /\ stack # <<>> /\ Top.kind = "hook" /\ Top.form = Len(FormOrder)
    /\ LET f == Top
           rel == [elems[f.e] EXCEPT !.borrowed = FALSE]
           els == [elems EXCEPT ![f.e] =
                      IF f.hook = "init"
                      THEN EndConstruct(rel, Definition(registry, rel.tag))
                      ELSE rel]
           d == Dispatch(Pop(stack), els, f.rest)
       IN /\ stack' = d.stack
          /\ elems' = d.elems
          /\ ev' = NoEv
    /\ UNCHANGED <<static, registry, once, hung, hist>>

\* -------------------------------------------------------------- the DOM
FreeElem == CHOOSE e \in Elems : elems[e].st = "none" /\ \A d \in 1..(e-1) : elems[d].st # "none"

\* T::create(): document.createElement(T::element_name()).  A defined name
\* is constructed at once, any other element waits for its definition.
CreateElement(t) ==
    /\ CanIssue
    /\ \E e \in Elems : elems[e].st = "none"
    /\ LET e == FreeElem
           n == element_name[t]
           els == [elems EXCEPT ![e].tag = n, ![e].st = "undefined"]
           r == IF RegistryGet(registry, n) # {}
                THEN StartConstruct(stack, els, e, Definition(registry, n).typ, <<>>)
                ELSE [stack |-> stack, elems |-> els]
       IN stack' = r.stack /\ elems' = r.elems /\ ev' = NoEv
    /\ UNCHANGED <<static, registry, once, hung, hist>>

\* parent.appendChild(element), the parent in a document: a custom element
\* gets connectedCallback, an element whose name got defined is upgraded.
Connect(e) ==
    /\ CanIssue
    /\ elems[e].st \in {"undefined", "custom"} /\ ~elems[e].conn
    /\ LET els == [elems EXCEPT ![e].conn = TRUE]
           n == elems[e].tag
           rs == IF elems[e].st = "custom" THEN ConnectedReaction(els, e) ELSE <<>>
           r == IF elems[e].st = "custom"
                THEN Dispatch(stack, els, rs)
                ELSE IF RegistryGet(registry, n) # {}
                THEN StartConstruct(stack, els, e, Definition(registry, n).typ,
                                    ConnectedReaction(els, e))
                ELSE [stack |-> stack, elems |-> els]
       IN stack' = r.stack /\ elems' = r.elems /\ ev' = NoEv
    /\ UNCHANGED <<static, registry, once, hung, hist>>

\* parent.removeChild(element)
Disconnect(e) ==
    /\ CanIssue
    /\ elems[e].st \in {"undefined", "custom"} /\ elems[e].conn
    /\ LET els == [elems EXCEPT ![e].conn = FALSE]
           rs == IF elems[e].st = "custom"
                 THEN <<Reaction(e, "disconnected", <<>>)>> ELSE <<>>
           r == Dispatch(stack, els, rs)
       IN stack' = r.stack /\ elems' = r.elems /\ ev' = NoEv
    /\ UNCHANGED <<static, registry, once, hung, hist>>

\* otherDocument.adoptNode(element): the element leaves its parent first.
AdoptNode(e) ==
    /\ CanIssue
    /\ elems[e].st = "custom"
    /\ LET els == [elems EXCEPT ![e].conn = FALSE]
           rs == (IF elems[e].conn THEN <<Reaction(e, "disconnected", <<>>)>> ELSE <<>>)
                 \o <<Reaction(e, "adopted", <<>>)>>
           r == Dispatch(stack, els, rs)
       IN stack' = r.stack /\ elems' = r.elems
    /\ UNCHANGED <<static, registry, once, hung, hist>>

Adopt(e) == AdoptNode(e) /\ ev' = NoEv

\* The same call, with a record of it (op adopt: of element e).
AdoptRecorded(e) == AdoptNode(e) /\ ev' = [NoEv EXCEPT !.op = "adopt", !.e = e]

\* static get observedAttributes(): the list the class was formatted with.
ObservedAttributesAccessor(def) == def.observed

\* The host calls attributeChangedCallback for the names in that list only.
IsObservedMut(def, a) == TRUE
IsObserved(def, a) == a \in ObservedAttributesAccessor(def)

\* element.setAttribute(a, v); v = None is element.removeAttribute(a) of an
\* attribute the element has.
SetAttribute(e, a, v) ==
    /\ CanIssue
    /\ elems[e].st = "custom"
    /\ v = None => elems[e].attrs[a] # None
    /\ LET old == elems[e].attrs[a]
           els == [elems EXCEPT ![e].attrs[a] = v]
           def == Definition(registry, elems[e].tag)
           rs == IF IsObserved(def, a)
                 THEN <<Reaction(e, "attribute_changed", <<a, old, v>>)>> ELSE <<>>
           r == Dispatch(stack, els, rs)
       IN stack' = r.stack /\ elems' = r.elems /\ ev' = NoEv
    /\ UNCHANGED <<static, registry, once, hung, hist>>

\* The constructor adds a listener for each observed name once init_impl
\* has returned: a custom element has them, a constructing one has none.
Listens(el, def, n) == n \in el.lself \cup el.lshadow

\* target.dispatchEvent(new Event(n)), target the element's event target:
\* the listener calls handleComponentEvent, the shim forwards it.
DispatchEvent(e, n) ==
    /\ CanIssue
    /\ elems[e].st = "custom"
    /\ LET def == Definition(registry, elems[e].tag)
           rs == IF Listens(elems[e], def, n)
                 THEN <<Reaction(e, "handle_event", <<n>>)>> ELSE <<>>
           r == Dispatch(stack, elems, rs)
       IN stack' = r.stack /\ elems' = r.elems /\ ev' = NoEv
    /\ UNCHANGED <<static, registry, once, hung, hist>>

\* self.attach_shadow(element, root) and attach_shadow_with_mode(element,
\* root, mode), called by a handler, or element.attachShadow({mode}) called
\* by the application, on an element that has no shadow root yet.
AttachShadow(e, mode) ==
    /\ CanIssue
    /\ elems[e].st \in {"constructing", "custom"}
    /\ elems[e].shadow = "none"
    /\ elems' = [elems EXCEPT ![e].shadow = mode]
    /\ ev' = NoEv
    /\ UNCHANGED <<static, registry, once, stack, hung, hist>>

\* The names for which the shim's listener is on target tg of the element.
ListenersOn(el, tg) == IF tg = "shadow" THEN el.lshadow ELSE el.lself

\* tg.dispatchEvent(new Event(n)), tg the element itself or its shadow
\* root: a listener on tg calls handleComponentEvent, the shim forwards it.
DeliverEvent(e, n, tg) ==
    /\ CanIssue
    /\ elems[e].st \in {"constructing", "custom"}
    /\ tg = "shadow" => elems[e].shadow # "none"
    /\ LET rs == IF n \in ListenersOn(elems[e], tg)
                 THEN <<Reaction(e, "handle_event", <<n>>)>> ELSE <<>>
           r == Dispatch(stack, elems, rs)
       IN stack' = r.stack /\ elems' = r.elems
    /\ ev' = [NoEv EXCEPT !.op = "deliver", !.e = e, !.n = n, !.tg = tg]
    /\ UNCHANGED <<static, registry, once, hung, hist>>

\* ------------------------------------------------------- specifications
NextRegistry ==
    \/ \E t \in Types : Define(t)
    \/ \E t \in Types : DefineOnceRun(t)
    \/ \E t \in Types : DefineOnceNoop(t)
    \/ \E t \in Types : DefineOnceReentrant(t)
    \/ DefineUpgrade
    \/ DefineReturn
    \/ HookNextForm
    \/ HookReturn
    \/ \E t \in Types : CreateElement(t)
    \/ \E e \in Elems : Connect(e)

SpecRegistry == InitRegistry /\ [][NextRegistry]_vars

NextLifecycle ==
    \/ \E t \in Types : Define(t)
    \/ DefineUpgrade
    \/ DefineReturn
    \/ HookNextForm
    \/ HookReturn
    \/ \E t \in Types : CreateElement(t)
    \/ \E e \in Elems : Connect(e)
    \/ \E e \in Elems : Disconnect(e)
    \/ \E e \in Elems : Adopt(e)
    \/ \E e \in Elems, a \in Attrs, v \in Vals \cup {None} : SetAttribute(e, a, v)
    \/ \E e \in Elems, n \in Events : DispatchEvent(e, n)

SpecLifecycle == InitLifecycle /\ [][NextLifecycle]_vars

\* An event name that no component observes.
OtherEvents == {"input"}
Modes == {"open", "closed"}
Targets == {"self", "shadow"}

InitEvents == InitLifecycle

NextEvents ==
    \/ \E t \in Types : Define(t)
    \/ DefineUpgrade
    \/ DefineReturn
    \/ HookNextForm
    \/ HookReturn
    \/ \E t \in Types : CreateElement(t)
    \/ \E e \in Elems : Connect(e)
    \/ \E e \in Elems, mode \in Modes : AttachShadow(e, mode)
    \/ \E e \in Elems, n \in Events \cup OtherEvents, tg \in Targets : DeliverEvent(e, n, tg)

SpecEvents == InitEvents /\ [][NextEvents]_vars

\* Attributes are set on the elements and events are delivered to them.
InitObserved == InitLifecycle

NextObserved ==
    \/ \E t \in Types : Define(t)
    \/ DefineUpgrade
    \/ DefineReturn
    \/ HookNextForm
    \/ HookReturn
    \/ \E t \in Types : CreateElement(t)
    \/ \E e \in Elems : Connect(e)
    \/ \E e \in Elems, a \in Attrs, v \in Vals \cup {None} : SetAttribute(e, a, v)
    \/ \E e \in Elems, n \in Events \cup OtherEvents : DeliverEvent(e, n, "self")

SpecObserved == InitObserved /\ [][NextObserved]_vars

\* The markup of the page holds elements of the components' names; the
\* program is loaded after it was parsed and defines the components.
InMarkup(n) == [NoElem EXCEPT !.tag = n, !.st = "undefined", !.conn = TRUE]

InitReentrant ==
    /\ element_name = [t \in Types |-> IF t = "A" THEN "x-one" ELSE "x-two"]
    /\ NothingDefined
    /\ Idle
    /\ elems \in [1..(MaxElems + 1) -> {InMarkup(n) : n \in Names}]

NextReentrant ==
    \/ \E t \in Types : DefineOnceRun(t)
    \/ \E t \in Types : DefineOnceNoop(t)
    \/ \E t \in Types : DefineOnceReentrant(t)
    \/ DefineUpgrade
    \/ DefineReturn
    \/ HookNextForm
    \/ HookReturn

SpecReentrant == InitReentrant /\ [][NextReentrant]_vars

\* Elements are connected, disconnected and adopted by other documents.
InitAdoption == InitLifecycle

NextAdoption ==
    \/ \E t \in Types : Define(t)
    \/ DefineUpgrade
    \/ DefineReturn
    \/ HookNextForm
    \/ HookReturn
    \/ \E t \in Types : CreateElement(t)
    \/ \E e \in Elems : Connect(e)
    \/ \E e \in Elems : Disconnect(e)
    \/ \E e \in Elems : AdoptRecorded(e)

SpecAdoption == InitAdoption /\ [][NextAdoption]_vars

\* ------------------------------------------------------- the two forms
\* Two components get the same host callbacks.  Both implement a handler
\* for the hooks in own: the one in the read-only form only, the other in
\* the mutating form only.  ro and mut are what their handlers have done to
\* their elements.
Hooks == {"init", "connected", "disconnected", "adopted", "attribute_changed",
          "handle_event"}

\* The callbacks of the shim, with the arguments the host hands over.
Callbacks == {<<"init", <<>>>>, <<"connected", <<>>>>, <<"disconnected", <<>>>>,
              <<"adopted", <<>>>>, <<"attribute_changed", <<"class", None, "foo">>>>,
              <<"handle_event", <<"click">>>>}

\* A handler of the component: what it does to the element depends on the
\* hook and on the arguments it is called with.
Handler(log, hook, args) == Append(log, <<hook, args>>)

\* The forms of WebComponentBinding that a component does not override:
\* { // noop }
DefaultHookMut(log, hook, args) == Append(log, <<"default", args>>)
DefaultHook(log, hook, args) == log

\* A call of form f of hook on a component that overrides the hooks in own
\* in form form.
Invoke(own, form, f, log, hook, args) ==
    IF hook \in own /\ f = form THEN Handler(log, hook, args)
    ELSE DefaultHook(log, hook, args)

\* <hook>_impl
RunImpl(own, form, log, hook, args) ==
    LET first == Invoke(own, form, FormOrder[1], log, hook, FormArgs(args, 1))
    IN Invoke(own, form, FormOrder[2], first, hook, FormArgs(args, 2))

InitForms ==
    /\ element_name = [t \in Types |-> IF t = "A" THEN "x-one" ELSE "x-two"]
    /\ Fresh
    /\ gen = NoGen /\ tpl = NoTpl /\ host = HostPresent
    /\ fx \in {[phase |-> "run", own |-> own, calls |-> 0, ro |-> <<>>, mut |-> <<>>] :
                own \in SUBSET {"init", "connected", "attribute_changed"}}

\* The host issues a callback to the element of either component.
HostCallback(cb) ==
    /\ fx.phase = "run"
    /\ fx.calls < MaxCalls
    /\ fx' = [fx EXCEPT !.calls = @ + 1,
                        !.ro = RunImpl(fx.own, "ro", @, cb[1], cb[2]),
                        !.mut = RunImpl(fx.own, "mut", @, cb[1], cb[2])]
    /\ UNCHANGED <<element_name, runtime, gen, tpl, host>>

NextForms == \E cb \in Callbacks : HostCallback(cb)

SpecForms == InitForms /\ [][NextForms]_vars

\* ---------------------------------------------------------- the generator
\* The declarations that are expanded: struct names of at most MaxLen
\* characters, the names of the tests, and the arguments of the attribute.
IdentChars == {"A", "b", "_"}
Idents == UNION {[1..n -> IdentChars] : n \in 1..MaxLen} \ {<<"_">>}
AnotherElement == <<"A", "n", "o", "t", "h", "e", "r", "E", "l", "e", "m", "e", "n", "t">>
ThisElement == <<"T", "h", "i", "s", "E", "l", "e", "m", "e", "n", "t">>
AnElement == <<"A", "n", "E", "l", "e", "m", "e", "n", "t">>
ThisOldElement ==
    <<"t", "h", "i", "s", "-", "o", "l", "d", "-", "e", "l", "e", "m", "e", "n", "t">>
StructNames == Idents \cup {AnotherElement, ThisElement, AnElement}
ClassNameArgs == {{}, {AnElement}, {<<"b", "A">>}}
ElementNameArgs == {{}, {ThisOldElement}, {<<"a", "b">>}, {<<>>}}
BaseClassArgs == {{}, {<<"H", "T", "M", "L", "D", "i", "v", "E", "l", "e", "m", "e", "n", "t">>}}
ObservedAttrsArgs == {{}, {<<"[", "class", "]">>}}
ObservedEventsArgs == {{}, {<<"[", "click", "]">>}}
AttributeArgs ==
    [class_name : ClassNameArgs, element_name : ElementNameArgs,
     base_class : BaseClassArgs, observed_attrs : ObservedAttrsArgs,
     observed_events : ObservedEventsArgs]

\* get_class_and_element_names: the AttributeConfig of a declaration.
GetClassAndElementNamesMut(args, struct_name) ==
    [class_name |-> ResolveClassName(args, struct_name),
     element_name |-> ResolveElementName(args, LitStrToken(struct_name)),
     observed_attributes |-> ResolveObserved(args.observed_attrs),
     observed_events |-> ResolveObserved(args.observed_events),
     base_class |-> ResolveBaseClass(args)]
GetClassAndElementNames(args, struct_name) ==
    LET class_name == ResolveClassName(args, struct_name)
        elem_name == ResolveElementName(args, class_name)
        base_class == ResolveBaseClass(args)
        observed_attributes == ResolveObserved(args.observed_attrs)
        observed_events == ResolveObserved(args.observed_events)
    IN [class_name |-> class_name, element_name |-> elem_name,
        observed_attributes |-> observed_attributes,
        observed_events |-> observed_events, base_class |-> base_class]

\* impl WebComponentDef: element_name() and class_name() return the literals.
GeneratedElementName(config) == LiteralValue(config.element_name)
GeneratedClassName(config) == LiteralValue(config.class_name)

\* The host's rule for the first argument of customElements.define: a valid
\* custom element name starts with a lower case letter, contains a hyphen
\* and has no upper case letter.
ValidCustomElementName(name) ==
    /\ name # <<>>
    /\ IsLowercase(name[1])
    /\ \E i \in 1..Len(name) : name[i] = "-"
    /\ \A i \in 1..Len(name) : IsLowercase(name[i]) \/ name[i] \in {"-", "_"}

NoConfig == [class_name |-> <<>>, element_name |-> <<>>, observed_attributes |-> <<>>,
             observed_events |-> <<>>, base_class |-> <<>>]

InitGenerator ==
    /\ element_name = [t \in Types |-> IF t = "A" THEN "x-one" ELSE "x-two"]
    /\ Fresh
    /\ fx = NoFx /\ tpl = NoTpl /\ host = HostPresent
    /\ \E sn \in StructNames, args \in AttributeArgs :
          gen = [phase |-> "declared", struct_name |-> sn, args |-> args,
                 config |-> NoConfig, result |-> None, via |-> None,
                 registered |-> FALSE]

\* #[web_component(..)] on a struct: the attribute is expanded into the
\* struct and its impls; no argument makes the expansion fail.
WebComponent ==
    /\ gen.phase = "declared"
    /\ gen' = [gen EXCEPT !.phase = "generated",
                          !.config = GetClassAndElementNames(gen.args, gen.struct_name)]
    /\ UNCHANGED <<element_name, fx, tpl, host, runtime>>

\* define() of the generated type in a window where nothing is defined:
\* customElements.get(element_name) is undefined, the body is evaluated and
\* customElements.define(element_name, ..) throws for an invalid name.
DefineGenerated ==
    /\ gen.phase = "generated"
    /\ LET valid == ValidCustomElementName(GeneratedElementName(gen.config))
       IN gen' = [gen EXCEPT !.phase = "defined", !.via = "define",
                             !.result = IF valid THEN "Ok" ELSE "Err",
                             !.registered = valid]
    /\ UNCHANGED <<element_name, fx, tpl, host, runtime>>

\* define_once() of the generated type in such a window: the closure runs
\* define() and drops its result, and define_once() returns.
DefineOnceGenerated ==
    /\ gen.phase = "generated"
    /\ LET valid == ValidCustomElementName(GeneratedElementName(gen.config))
       IN gen' = [gen EXCEPT !.phase = "defined", !.via = "define_once",
                             !.result = Swallow(IF valid THEN "Ok" ELSE "Err"),
                             !.registered = valid]
    /\ UNCHANGED <<element_name, fx, tpl, host, runtime>>

NextGenerator == WebComponent \/ DefineGenerated \/ DefineOnceGenerated

SpecGenerator == InitGenerator /\ [][NextGenerator]_vars

\* ------------------------------------------------- the derive crate
\* get_class_and_element_names of the derive crate: it gets the arguments
\* alone, not the struct; class_name and element_name default to the empty
\* literal "", observed_attrs to "[]"; any other argument is skipped.
DeriveGetClassAndElementNames(args) ==
    LET class_name == IF IsSome(args.class_name)
                      THEN LitStrToken(Unwrap(args.class_name))
                      ELSE LitStrToken(<<>>)
        elem_name == IF IsSome(args.element_name)
                     THEN LitStrToken(Unwrap(args.element_name))
                     ELSE LitStrToken(<<>>)
        observed_attributes == IF IsSome(args.observed_attrs)
                               THEN LitStrToken(Unwrap(args.observed_attrs))
                               ELSE LitStrToken(<<"[", "]">>)
    IN [class_name |-> class_name, element_name |-> elem_name,
        observed_attributes |-> observed_attributes]

InitDerive == InitGenerator

\* #[web_component(..)] of the derive crate on a struct.
DeriveWebComponent ==
    /\ gen.phase = "declared"
    /\ gen' = [gen EXCEPT !.phase = "generated",
                          !.config = DeriveGetClassAndElementNames(gen.args)]
    /\ UNCHANGED <<element_name, fx, tpl, host, runtime>>

\* define() of the type the derive crate generated, in a window where
\* nothing is defined: Function::new_with_args throws for the class text
\* `class  extends HTMLElement` of an empty class name; otherwise the body
\* runs and customElements.define throws for an invalid name, which call1
\* returns as the Err.
DeriveDefine ==
    /\ gen.phase = "generated"
    /\ LET named == GeneratedClassName(gen.config) # <<>>
           valid == ValidCustomElementName(GeneratedElementName(gen.config))
       IN gen' = [gen EXCEPT !.phase = "defined", !.via = "define",
                             !.result = IF ~named THEN "Throws"
                                        ELSE IF valid THEN "Ok" ELSE "Err",
                             !.registered = named /\ valid]
    /\ UNCHANGED <<element_name, fx, tpl, host, runtime>>

NextDerive == DeriveWebComponent \/ DeriveDefine

SpecDerive == InitDerive /\ [][NextDerive]_vars

\* ---------------------------------------------------------- the templates
\* Two #[template_element] types: render() of T1 gives a template with the
\* id attribute or without it, render() of T2 gives one without.
Templates == {"T1", "T2"}
TemplateId == "template-id"

\* Option: None is <<>>, Some(v) is <<v>>.
OptNone == <<>>
OptSome(v) == <<v>>

\* OnceLock::get: None while the cell is not set, Some(&value) after.
OnceLockGetMut(cell) == OptSome(OptNone)
OnceLockGet(cell) == cell

\* OnceLock::get_or_init returns the value at once when the cell is set.
IsInitialized(cell) == cell # OptNone

\* template_element.get_attribute("id") of what render() of t returns.
GetAttributeId(t) == tpl.id[t]

\* body.append_child(template_element.as_ref())
AppendChildMut(body, t) == body
AppendChild(body, t) == Append(body, t)

\* web_sys::window().expect(..).document().expect(..).body().expect(..)
BodyAvailable == host.window /\ host.body

\* A call of the API of a template type: op on type t; ret says that the
\* call returned, res is then what it returned.
TemplateCall(op, t, ret, res) == [op |-> op, t |-> t, ret |-> ret, res |-> res]

FreshTemplates ==
    /\ element_name = [t \in Types |-> IF t = "A" THEN "x-one" ELSE "x-two"]
    /\ Fresh
    /\ gen = NoGen /\ fx = NoFx
    /\ \E id1 \in {OptNone, OptSome(TemplateId)} :
          tpl = [phase |-> "run",
                 id |-> [t \in Templates |-> IF t = "T1" THEN id1 ELSE OptNone],
                 once |-> [t \in Templates |-> "Incomplete"],
                 cell |-> [t \in Templates |-> OptNone],
                 renders |-> [t \in Templates |-> 0],
                 body |-> <<>>, log |-> <<>>]

InitTemplate == FreshTemplates /\ host = HostPresent

\* T::define_once() with the host there, or with the cell set already:
\* get_or_init runs the closure if the cell is not set (render, read the id,
\* append to the body, the id is the value of the cell), then get().
TemplateDefineOnce(t) ==
    /\ tpl.phase = "run" /\ ~hung /\ stack = <<>>
    /\ Len(tpl.log) < MaxCalls
    /\ IF IsInitialized(tpl.cell[t])
       THEN tpl' = [tpl EXCEPT !.log = Append(@, TemplateCall("define_once", t, TRUE,
                                                              OnceLockGet(tpl.cell[t])))]
       ELSE /\ tpl.once[t] = "Incomplete"
            /\ BodyAvailable
            /\ LET cell == OptSome(GetAttributeId(t))
               IN tpl' = [tpl EXCEPT !.renders[t] = @ + 1,
                                     !.body = AppendChild(@, t),
                                     !.once[t] = "Complete",
                                     !.cell[t] = cell,
                                     !.log = Append(@, TemplateCall("define_once", t, TRUE,
                                                                    OnceLockGet(cell)))]
    /\ UNCHANGED <<element_name, gen, fx, host, runtime>>

\* T::get_id()
TemplateGetId(t) ==
    /\ tpl.phase = "run" /\ ~hung /\ stack = <<>>
    /\ Len(tpl.log) < MaxCalls
    /\ tpl' = [tpl EXCEPT !.log = Append(@, TemplateCall("get_id", t, TRUE,
                                                         OnceLockGet(tpl.cell[t])))]
    /\ UNCHANGED <<element_name, gen, fx, host, runtime>>

NextTemplate ==
    \/ \E t \in Templates : TemplateDefineOnce(t)
    \/ \E t \in Templates : TemplateGetId(t)

SpecTemplate == InitTemplate /\ [][NextTemplate]_vars

\* ------------------------------------------------------ the host is absent
\* The program runs where there is no window (a worker), or in a window
\* whose document has no body yet (a script of the head).
InitHost ==
    /\ FreshTemplates
    /\ host \in {[window |-> FALSE, body |-> FALSE], [window |-> TRUE, body |-> FALSE]}

\* The parser reaches the body of the document.
BodyParsed ==
    /\ host.window /\ ~host.body
    /\ host' = [host EXCEPT !.body = TRUE]
    /\ UNCHANGED <<element_name, gen, fx, tpl, runtime>>

\* The state a Once is left in when its closure panics: the panic is a trap,
\* nothing is unwound, and the Once stays as it was while the closure ran.
OnceAfterTrapMut == "Incomplete"
OnceAfterTrap == StateWhileRunning

\* T::define() without a window: web_sys::window().unwrap() panics.
DefineAbort(t) ==
    /\ ~hung /\ stack = <<>>
    /\ ~host.window
    /\ ev' = [NoEv EXCEPT !.op = "define", !.t = t, !.res = "abort"]
    /\ UNCHANGED <<static, registry, once, elems, stack, hung, hist>>

\* T::define_once() without a window: the closure runs define(), which
\* panics.
DefineOnceAbort(t) ==
    /\ ~hung /\ stack = <<>>
    /\ ~host.window
    /\ RunsClosure(once[t])
    /\ defineViaOnce[t] < 2
    /\ defineViaOnce' = [defineViaOnce EXCEPT ![t] = @ + 1]
    /\ onceCalled' = [onceCalled EXCEPT ![t] = TRUE]
    /\ once' = [once EXCEPT ![t] = OnceAfterTrap]
    /\ ev' = OnceEv(t, "abort")
    /\ UNCHANGED <<static, registry, elems, stack, hung, firstDefine, onceResult>>

\* The cell after a closure of get_or_init that panicked: get_or_init sets
\* the cell to the value the closure returns, and this closure never
\* returned the id it had read.
CellAfterTrapMut(cell, id) == OptSome(id)
CellAfterTrap(cell, id) == cell

\* T::define_once() of a template type without a body: the closure calls
\* render() and panics at the first expect that finds nothing.
TemplateDefineOnceAbort(t) ==
    /\ tpl.phase = "run" /\ ~hung /\ stack = <<>>
    /\ Len(tpl.log) < MaxCalls
    /\ ~IsInitialized(tpl.cell[t])
    /\ tpl.once[t] = "Incomplete"
    /\ ~BodyAvailable
    /\ tpl' = [tpl EXCEPT !.renders[t] = @ + 1,
                          !.once[t] = OnceAfterTrap,
                          !.cell[t] = CellAfterTrap(@, GetAttributeId(t)),
                          !.log = Append(@, TemplateCall("define_once", t, FALSE, OptNone))]
    /\ UNCHANGED <<element_name, gen, fx, host, runtime>>

\* T::define_once() of a template type whose OnceLock was left running.
TemplateDefineOnceStuck(t) ==
    /\ tpl.phase = "run" /\ ~hung /\ stack = <<>>
    /\ Len(tpl.log) < MaxCalls
    /\ ~IsInitialized(tpl.cell[t])
    /\ tpl.once[t] = "Running"
    /\ tpl' = [tpl EXCEPT !.log = Append(@, TemplateCall("define_once", t, FALSE, OptNone))]
    /\ \E o \in ReentrantOutcomes : hung' = (o = "deadlock")
    /\ UNCHANGED <<element_name, gen, fx, host, registry, once, elems, stack, hist, ev>>

NextHost ==
    \/ BodyParsed
    \/ \E t \in Types : DefineAbort(t)
    \/ \E t \in Types : DefineOnceAbort(t)
    \/ \E t \in Types : DefineOnceReentrant(t)
    \/ \E t \in Templates : TemplateDefineOnce(t)
    \/ \E t \in Templates : TemplateDefineOnceAbort(t)
    \/ \E t \in Templates : TemplateDefineOnceStuck(t)
    \/ \E t \in Templates : TemplateGetId(t)

SpecHost == InitHost /\ [][NextHost]_vars

\* ------------------------------------------------------------ properties
Failed == {"AlreadyDefined", "NotSupported"}

\* C1: the first define() for an element name succeeds (it has registered
\* the class and is upgrading elements, or it has returned Ok), every later
\* define() for that name, by any type, returns AlreadyDefined, and so only
\* the first define() of a name ever returns Ok.
C1_DefineSucceedsOncePerName ==
    /\ \A n \in Names : firstDefine[n] \in {"None", "Pending", "Ok"}
    /\ stack = <<>> => \A n \in Names : firstDefine[n] # "Pending"
    /\ ev.op = "define" /\ ev.first => ev.res \in {"Pending", "Ok"}
    /\ ev.op = "define" /\ ~ev.first => ev.res = "AlreadyDefined"

\* B's define() for the name that A's define() has registered.
C1_Witness ==
    /\ ev.op = "define" /\ ev.t = "B" /\ ~ev.first /\ ev.res = "AlreadyDefined"
    /\ element_name["B"] = element_name["A"]
    /\ firstDefine[element_name["B"]] = "Ok"

\* C2: once a type's define_once() has been called, however many times and
\* from wherever (at top level, from a handler, from a handler that runs
\* inside the first call), define() has been invoked for it by define_once()
\* exactly once.
C2_DefineOnceInvokesDefineOnce ==
    \A t \in Types : defineViaOnce[t] = IF onceCalled[t] THEN 1 ELSE 0

\* A define_once() made by a handler while the first call still runs.
C2_Witness ==
    /\ ev.op = "define_once" /\ ev.res = "panic"
    /\ once[ev.t] = "Running" /\ defineViaOnce[ev.t] = 1

C4_LaterDefineOnceReturns ==
    /\ ev.op = "define_once" /\ ~ev.ofirst => ev.res = "noop"
    /\ ev.op = "define" /\ ev.via => ev.ofirst

GuardSet(t) == once[t] = "Complete"

\* C5 (as stated): the guard of a type is set only when a define() run by
\* its define_once() has succeeded.
C5_GuardSetOnlyBySuccess ==
    \A t \in Types : GuardSet(t) => onceResult[t] = "Ok"

\* C5 (amended): the guard of a type is set exactly when the define() run by
\* its define_once() has returned, with Ok or with an error; once set it
\* stays set.
C5_GuardSetWhenDefineReturned ==
    [][\A t \in Types :
         /\ GuardSet(t)' <=> onceResult'[t] \in {"Ok"} \cup Failed
         /\ GuardSet(t) => GuardSet(t)']_vars

\* The guard is set by a define() that failed.
C5_Witness ==
    \E t \in Types : GuardSet(t) /\ onceResult[t] = "AlreadyDefined"

\* C6: a define_once() whose define() fails returns to its caller without
\* the error, leaves the registry as it was and sets the guard; every later
\* define_once() of the type is a no-op that runs no define().
C6_DefineOnceSwallowsFailure ==
    [][/\ ev'.op = "define" /\ ev'.via /\ ev'.res \in Failed
            => ev'.ores = "err" /\ registry' = registry /\ once'[ev'.t] = "Complete"
       /\ ev'.op = "define" /\ ev'.via => ev'.ores \in {"running", "ok", "err"}
       /\ \A t \in Types : onceResult[t] \in Failed =>
            /\ ev'.op = "define_once" /\ ev'.t = t => ev'.res = "noop"
            /\ ~(ev'.op = "define" /\ ev'.t = t /\ ev'.via)]_vars

\* A later define_once() of a type whose define() had failed.
C6_Witness ==
    /\ ev.op = "define_once" /\ ev.res = "noop"
    /\ onceResult[ev.t] = "AlreadyDefined"
    /\ defineViaOnce[ev.t] = 1

\* The calls a forwarded callback has to make: the read-only form, then the
\* mutating form, with the element and the arguments of the callback.
ExpectedCalls(f) == <<[form |-> "ro", e |-> f.e, args |-> f.args],
                      [form |-> "mut", e |-> f.e, args |-> f.args]>>

HookFrames(stk) == {i \in 1..Len(stk) : stk[i].kind = "hook"}

\* The *_impl on top of the stack returns in this step.
TopReturns ==
    IF stack = <<>> THEN FALSE
    ELSE IF Top.kind # "hook" THEN FALSE
    ELSE IF Len(stack') < Len(stack) THEN TRUE
    ELSE <<stack'[Len(stack)].e, stack'[Len(stack)].hook>> # <<Top.e, Top.hook>>

\* C7: every *_impl that runs calls the read-only form first and the
\* mutating form second, both with the element and the argument values of
\* the callback, and returns only when it has called both.
C7_ReadOnlyThenMutating ==
    [][/\ \A i \in HookFrames(stack') :
            /\ stack'[i].form \in 1..2
            /\ stack'[i].seen = SubSeq(ExpectedCalls(stack'[i]), 1, stack'[i].form)
       /\ TopReturns => Top.seen = ExpectedCalls(Top)]_vars

\* attribute_changed_impl has called both forms for class: None -> foo.
C7_Witness ==
    \E i \in HookFrames(stack) :
        /\ stack[i].hook = "attribute_changed"
        /\ stack[i].args = <<"class", None, "foo">>
        /\ Len(stack[i].seen) = 2

\* The frame of hook for e with args is the one a step has put on the stack.
Dispatched(e, hook, args) ==
    /\ Len(stack') = Len(stack) + 1
    /\ LET f == stack'[Len(stack')]
       IN f.kind = "hook" /\ f.e = e /\ f.hook = hook /\ f.args = args

\* C8: every mutation of an observed attribute of an instance's element,
\* whoever makes it and whenever, dispatches attribute_changed with the
\* name, the value before and the value after.
C8_AttributeChangedPerMutation ==
    [][\A e \in Elems, a \in Attrs :
         /\ elems[e].st = "custom"
         /\ a \in ObservedAttrs(elems[e].typ)
         /\ elems'[e].attrs[a] # elems[e].attrs[a]
         => Dispatched(e, "attribute_changed", <<a, elems[e].attrs[a], elems'[e].attrs[a]>>)]_vars

\* C9: every registered class answers observedAttributes with the list its
\* type resolved, for as long as it is registered (for ever); an
\* attribute_changed that runs is for a name of that list, and a mutation of
\* another attribute dispatches nothing.
C9_OnlyObservedAttributes ==
    [][/\ \A d \in registry' : ObservedAttributesAccessor(d) = ObservedAttrs(d.typ)
       /\ registry \subseteq registry'
       /\ \A i \in HookFrames(stack') :
            stack'[i].hook = "attribute_changed"
            => stack'[i].args[1] \in ObservedAttrs(elems'[stack'[i].e].typ)
       /\ \A e \in Elems, a \in Attrs :
            /\ elems[e].st = "custom"
            /\ a \notin ObservedAttrs(elems[e].typ)
            /\ elems'[e].attrs[a] # elems[e].attrs[a]
            => stack' = stack]_vars

\* An instance of A, which observes class, has had its id set and nothing
\* runs.
C9_Witness ==
    \E e \in Elems :
        /\ elems[e].typ = "A" /\ elems[e].st = "custom"
        /\ elems[e].attrs["id"] = "foo" /\ elems[e].attrs["class"] = None
        /\ stack = <<>>

\* C10: every connect of an instance's element dispatches connected and
\* every disconnect dispatches disconnected.
C10_ConnectedPerConnect ==
    [][\A e \in Elems :
         /\ elems[e].st = "custom" /\ elems'[e].st = "custom"
         /\ elems'[e].conn # elems[e].conn
         => Dispatched(e, IF elems'[e].conn THEN "connected" ELSE "disconnected", <<>>)]_vars

\* The frames of init_impl for element e.
InitFrames(stk, e) == {i \in HookFrames(stk) : stk[i].e = e /\ stk[i].hook = "init"}

\* C11: init is dispatched to an instance once, when its element is
\* constructed: an element is constructed once, init_impl runs exactly
\* while it is being constructed, the element becomes custom when init_impl
\* returns, every other hook runs on a custom element only, and a step
\* starts at most one handler invocation.
C11_InitOnceAndFirst ==
    [][/\ Len(stack') <= Len(stack) + 1
       /\ \A i \in HookFrames(stack') :
            stack'[i].hook # "init" => elems'[stack'[i].e].st = "custom"
       /\ \A e \in Elems :
            /\ Cardinality(InitFrames(stack', e)) > Cardinality(InitFrames(stack, e))
                 => elems[e].st \in {"none", "undefined"} /\ elems'[e].st = "constructing"
            /\ elems[e].st \in {"constructing", "custom", "failed"}
                 => elems'[e].st \in {"constructing", "custom", "failed"}
            /\ elems'[e].st = "constructing" <=> Cardinality(InitFrames(stack', e)) = 1
            /\ elems'[e].st = "custom" /\ elems[e].st # "custom"
                 => /\ elems[e].st = "constructing"
                    /\ TopReturns /\ Top.e = e /\ Top.hook = "init"
                    /\ Top.seen = ExpectedCalls(Top)]_vars

\* An element whose init has returned gets connected: connected_impl runs,
\* no init_impl does.
C11_Witness ==
    \E i \in HookFrames(stack) :
        /\ stack[i].hook = "connected"
        /\ elems[stack[i].e].st = "custom" /\ elems[stack[i].e].conn
        /\ InitFrames(stack, stack[i].e) = {}

\* C12: when an instance becomes Initialized (its constructor ends), the
\* shim's listeners are there for exactly the names of observed_events, on
\* the shadow root if the element has one at that point, of either mode,
\* and on the element itself otherwise, never on both.
C12_ListenersOnShadowRootIfAttached ==
    [][\A e \in Elems :
         elems[e].st = "constructing" /\ elems'[e].st = "custom"
         => LET names == ObservedEvents(elems'[e].typ)
            IN IF elems[e].shadow # "none"
               THEN elems'[e].lshadow = names /\ elems'[e].lself = {}
               ELSE elems'[e].lself = names /\ elems'[e].lshadow = {}]_vars

\* C13: every delivery of an observed event to the target that has the
\* instance's listeners dispatches handle_event for that event, and the
\* delivery of any other event dispatches nothing.
C13_HandleEventPerDelivery ==
    [][ev'.op = "deliver" =>
         LET el == elems[ev'.e]
         IN IF ev'.n \in ObservedEvents(el.typ) /\ ev'.n \in ListenersOn(el, ev'.tg)
            THEN Dispatched(ev'.e, "handle_event", <<ev'.n>>)
            ELSE stack' = stack]_vars

\* C14: a form that is not overridden does nothing, so after any sequence
\* of callbacks the component with read-only handlers and the component
\* with mutating handlers have done the same to their elements, and only
\* the hooks they implement have done anything, once per callback at most.
C14_FormsAreEquivalent ==
    fx.phase = "run" =>
        /\ fx.ro = fx.mut
        /\ Len(fx.ro) <= fx.calls
        /\ \A i \in 1..Len(fx.ro) : fx.ro[i][1] \in fx.own

\* Two callbacks were issued, one of a hook that is not overridden.
C14_Witness ==
    /\ fx.phase = "run" /\ fx.calls = 2 /\ "connected" \notin fx.own
    /\ fx.mut = <<<<"attribute_changed", <<"class", None, "foo">>>>>>

\* define() of type t has returned Ok.
Succeeded(t) == firstDefine[element_name[t]] = "Ok" /\ ShimClass(t) \in registry

C16_NoOverrides ==
    (gen.phase \in {"generated", "defined"}
        /\ ~IsSome(gen.args.class_name) /\ ~IsSome(gen.args.element_name))
    => /\ GeneratedClassName(gen.config) = gen.struct_name
       /\ GeneratedElementName(gen.config) = ToLowercase(ToKebabCase(gen.struct_name))
       /\ (gen.struct_name = AnotherElement
              => GeneratedElementName(gen.config) =
                    <<"a", "n", "o", "t", "h", "e", "r", "-",
                      "e", "l", "e", "m", "e", "n", "t">>)

C16_Witness ==
    /\ gen.phase = "generated"
    /\ ~IsSome(gen.args.class_name) /\ ~IsSome(gen.args.element_name)
    /\ gen.struct_name = AnotherElement
    /\ GeneratedClassName(gen.config) = AnotherElement

\* C17: a type declared with an element_name override and no class_name
\* override gets the override, character for character, as element_name,
\* whatever its class name is, and its own name as class_name.
C17_ElementNameOverride ==
    (gen.phase \in {"generated", "defined"}
        /\ IsSome(gen.args.element_name) /\ ~IsSome(gen.args.class_name))
    => /\ GeneratedElementName(gen.config) = Unwrap(gen.args.element_name)
       /\ GeneratedClassName(gen.config) = gen.struct_name

C17_Witness ==
    /\ gen.phase = "generated"
    /\ gen.struct_name = ThisElement
    /\ gen.args.element_name = {ThisOldElement} /\ ~IsSome(gen.args.class_name)
    /\ GeneratedElementName(gen.config) = ThisOldElement
    /\ GeneratedElementName(gen.config) # ToLowercase(ToKebabCase(ThisElement))

\* C18: a type declared with a class_name override and no element_name
\* override gets the lower-cased kebab-case form of the overridden class
\* name as element_name (AnElement gives an-element), not the form of its
\* own name: element_name is resolved from the class_name resolved before
\* it; base_class is the override or HTMLElement.
C18_ElementNameFromClassNameOverride ==
    (gen.phase \in {"generated", "defined"}
        /\ IsSome(gen.args.class_name) /\ ~IsSome(gen.args.element_name))
    => /\ GeneratedClassName(gen.config) = Unwrap(gen.args.class_name)
       /\ GeneratedElementName(gen.config) =
             ToLowercase(ToKebabCase(GeneratedClassName(gen.config)))
       /\ (gen.args.class_name = {AnElement}
              => GeneratedElementName(gen.config) =
                    <<"a", "n", "-", "e", "l", "e", "m", "e", "n", "t">>)
       /\ LiteralValue(gen.config.base_class) =
             (IF IsSome(gen.args.base_class) THEN Unwrap(gen.args.base_class)
              ELSE <<"H", "T", "M", "L", "E", "l", "e", "m", "e", "n", "t">>)

C18_Witness ==
    /\ gen.phase = "generated"
    /\ gen.args.class_name = {AnElement} /\ ~IsSome(gen.args.element_name)
    /\ GeneratedElementName(gen.config) = ToLowercase(ToKebabCase(AnElement))
    /\ GeneratedElementName(gen.config) # ToLowercase(ToKebabCase(gen.struct_name))

\* The callbacks that are running or waiting to run: <<element, hook>>.
Pending ==
    {<<stack[i].e, stack[i].hook>> : i \in HookFrames(stack)}
    \cup UNION {{<<stack[i].rest[j].e, stack[i].rest[j].hook>> :
                    j \in 1..Len(stack[i].rest)} : i \in 1..Len(stack)}

\* C19: B is declared with no observed_attrs and no observed_events
\* argument: both of its sets resolve to the empty set, the class that is
\* registered for it observes nothing, its elements have no listener, and
\* no attribute_changed and no handle_event is ever dispatched to an
\* instance of B.
C19_NothingObservedByDefault ==
    /\ ObservedAttrsArg("B") = {} /\ ObservedEventsArg("B") = {}
    /\ ObservedAttrs("B") = {} /\ ObservedEvents("B") = {}
    /\ \A d \in registry :
          d.typ = "B" => ObservedAttributesAccessor(d) = {} /\ ObservedEventsAccessor(d) = {}
    /\ \A e \in Elems :
          elems[e].typ = "B"
          => /\ elems[e].lself = {} /\ elems[e].lshadow = {}
             /\ <<e, "attribute_changed">> \notin Pending
             /\ <<e, "handle_event">> \notin Pending

\* An instance of B has had an attribute set and an event delivered to it,
\* and nothing runs.
C19_Witness ==
    /\ ev.op = "deliver" /\ ev.n = "click"
    /\ elems[ev.e].typ = "B" /\ elems[ev.e].st = "custom"
    /\ elems[ev.e].attrs["class"] = "foo"
    /\ stack = <<>>

\* The separator character of a custom element name.
HasSeparator(name) == \E i \in 1..Len(name) : name[i] = "-"

\* C20: generation fails when the resolved element_name is empty or has no
\* separator character: every type that has been generated, and so every
\* type whose define() is called, has an element_name that is not empty and
\* contains a separator, and no registration is attempted for another name.
C20_InvalidElementNameFailsGeneration ==
    gen.phase \in {"generated", "defined"}
    => /\ GeneratedElementName(gen.config) # <<>>
       /\ HasSeparator(GeneratedElementName(gen.config))

\* The calls of op on template type t that have been made, by position.
TemplateCalls(op, t) ==
    {i \in 1..Len(tpl.log) : tpl.log[i].op = op /\ tpl.log[i].t = t}

\* The number of fragments of template type t in the document body.
Appended(t) == Cardinality({i \in 1..Len(tpl.body) : tpl.body[i] = t})

\* C21: over any number of define_once() calls of a template type, render()
\* is called once and the fragment is appended to the body once, both by the
\* first call; every call returns Some of the same identifier, the one the
\* rendered fragment has, never None; a later call leaves the body alone.
C21_TemplateRenderedOnce ==
    [][\A t \in Templates :
         /\ tpl'.renders[t] = (IF TemplateCalls("define_once", t)' # {} THEN 1 ELSE 0)
         /\ Appended(t)' = tpl'.renders[t]
         /\ \A i \in TemplateCalls("define_once", t)' :
               tpl'.log[i].ret /\ tpl'.log[i].res = OptSome(tpl'.id[t])
         /\ TemplateCalls("define_once", t) # {}
               => Appended(t)' = Appended(t) /\ Len(tpl'.body) <= Len(tpl.body) + 1]_vars

C21_Witness ==
    /\ Cardinality(TemplateCalls("define_once", "T1")) >= 2
    /\ tpl.id["T1"] = OptSome(TemplateId)
    /\ tpl.renders["T1"] = 1 /\ Appended("T1") = 1

\* The last step was a get_id() call.
GetIdStep ==
    /\ Len(tpl'.log) = Len(tpl.log) + 1
    /\ tpl'.log[Len(tpl'.log)].op = "get_id"

\* C22: get_id() returns None before the first define_once() of its type;
\* after it, Some(None) if the rendered fragment has no id and Some(Some(id))
\* if it has, which is what every define_once() of the type returned, and
\* that never changes; the three values differ; get_id() renders nothing
\* and inserts nothing.
C22_GetIdTracksDefineOnce ==
    [][/\ \A t \in Templates : \A i \in TemplateCalls("get_id", t)' :
            LET before == {j \in TemplateCalls("define_once", t)' : j < i}
            IN /\ tpl'.log[i].ret
               /\ tpl'.log[i].res =
                     (IF before = {} THEN OptNone
                      ELSE IF tpl'.id[t] = OptNone THEN OptSome(OptNone)
                      ELSE OptSome(OptSome(TemplateId)))
               /\ \A j \in before : tpl'.log[i].res = tpl'.log[j].res
       /\ OptNone # OptSome(OptNone) /\ OptSome(OptNone) # OptSome(OptSome(TemplateId))
       /\ OptNone # OptSome(OptSome(TemplateId))
       /\ \A t \in Templates : tpl.cell[t] # OptNone => tpl'.cell[t] = tpl.cell[t]
       /\ GetIdStep => /\ tpl'.renders = tpl.renders /\ tpl'.body = tpl.body
                       /\ tpl'.cell = tpl.cell /\ tpl'.once = tpl.once]_vars

\* get_id() of T1 has returned None, then define_once() has rendered a
\* fragment with an id, then get_id() has returned it.
C22_Witness ==
    /\ Len(tpl.log) = 3
    /\ tpl.log[1] = TemplateCall("get_id", "T1", TRUE, OptNone)
    /\ tpl.log[2].op = "define_once" /\ tpl.log[2].t = "T1"
    /\ tpl.log[3] = TemplateCall("get_id", "T1", TRUE, OptSome(OptSome(TemplateId)))

\* The define_once() calls of template type t began with one that found no
\* body and did not return.
FirstRenderAborted(t) ==
    LET calls == TemplateCalls("define_once", t)
    IN calls # {} /\ ~tpl.log[CHOOSE i \in calls : \A j \in calls : i <= j].ret

\* C23: without a window define() and define_once() abort: nothing is
\* registered, no call yields Ok or an Err, and define_once() runs define()
\* once at most; a template define_once() that finds no window or no body
\* aborts: nothing is inserted, the cell stays unset, and no later call of
\* the type renders again, inserts or returns, even when the body is there
\* by then.
C23_HostAbsentAborts ==
    /\ ~host.window
       => /\ registry = {}
          /\ ev.op \in {"define", "define_once"} => ev.res \in {"abort", "panic", "deadlock"}
          /\ \A n \in Names : firstDefine[n] = "None"
          /\ \A t \in Types : /\ onceResult[t] = "None" /\ once[t] # "Complete"
                              /\ defineViaOnce[t] <= 1
    /\ \A t \in Templates :
          FirstRenderAborted(t)
          => /\ tpl.renders[t] = 1 /\ Appended(t) = 0
             /\ tpl.cell[t] = OptNone
             /\ \A i \in TemplateCalls("define_once", t) : ~tpl.log[i].ret
             /\ \A i \in TemplateCalls("get_id", t) : tpl.log[i].res = OptNone

\* The first define_once() of T1 found no body; the body is there now and
\* define_once() of T1 has been called again.
C23_Witness ==
    /\ host.body
    /\ FirstRenderAborted("T1")
    /\ Cardinality(TemplateCalls("define_once", "T1")) >= 2
    /\ tpl.log[Len(tpl.log)].op = "define_once" /\ tpl.log[Len(tpl.log)].t = "T1"

\* Element e is being constructed by this step.
Constructed(e) == elems[e].st \in {"none", "undefined"} /\ elems'[e].st = "constructing"

Registering(u) == {i \in 1..Len(stack) : stack[i].kind = "define" /\ stack[i].t = u
                                         /\ stack[i].viaOnce}

\* The step is a define_once() call of type t made by a hook of an element
\* of another type u, which runs under define_once() of u.
CallsFromHookOf(u, t) ==
    /\ stack # <<>> /\ Top.kind = "hook" /\ elems[Top.e].typ = u /\ u # t
    /\ Registering(u) # {}
    /\ ev'.op \in {"define", "define_once"} /\ ev'.t = t
    /\ ev'.op = "define" => ev'.via

\* C25: a define_once() of a type that a hook of another type calls while
\* that other type is being registered runs to its end: it neither panics
\* nor blocks, and the type is registered afterwards.
C25_ReentrantDefineOnceCompletes ==
    [][\A u \in Types, t \in Types :
         CallsFromHookOf(u, t)
         => /\ ev'.res \notin {"panic", "deadlock"} /\ ~hung'
            /\ RegistryGet(registry', element_name[t]) # {}]_vars

\* C26: every adoption of an instance's element dispatches adopted once; if
\* the element was connected, disconnected is dispatched first and adopted
\* right after it; the adopted element is out of its document and can be
\* connected again.
C26_AdoptedPerAdoption ==
    [][ev'.op = "adopt" =>
         LET e == ev'.e IN
         /\ IF elems[e].conn
            THEN /\ Dispatched(e, "disconnected", <<>>)
                 /\ stack'[Len(stack')].rest = <<Reaction(e, "adopted", <<>>)>>
            ELSE /\ Dispatched(e, "adopted", <<>>)
                 /\ stack'[Len(stack')].rest = <<>>
         /\ elems'[e].st = "custom" /\ ~elems'[e].conn]_vars

\* C27: once a define_once() call of a component type has returned, the
\* type's element_name is in the host registry.
C27_DefinedAfterDefineOnce ==
    (gen.phase = "defined" /\ gen.via = "define_once") => gen.registered

\* C28: define() neither reads nor sets the Once: whatever the Once of its
\* type, a direct define() fails with AlreadyDefined exactly when the name
\* is registered (so after a successful define_once()) and leaves every
\* Once as it is; after a successful direct define() the Once is still
\* incomplete, and the first define_once() then runs define() once, which
\* fails with AlreadyDefined, and completes the Once.
C28_DefineIgnoresGuard ==
    [][ev'.op = "define" =>
         LET t == ev'.t
             n == element_name[t]
         IN /\ ev'.res # "Ok"
                  => (ev'.res = "AlreadyDefined") = (RegistryGet(registry, n) # {})
            /\ ~ev'.via => once' = once
            /\ (~ev'.via /\ once[t] = "Complete" /\ onceResult[t] = "Ok")
                  => ev'.res = "AlreadyDefined"
            /\ (ev'.via /\ ev'.res = "AlreadyDefined")
                  => /\ once[t] = "Incomplete" /\ once'[t] = "Complete"
                     /\ defineViaOnce'[t] = defineViaOnce[t] + 1
                     /\ ev'.ores = "err"
                     /\ registry' = registry]_vars

\* A was registered by a direct define(); the first define_once() of A has
\* run define(), which failed, and the Once of A is complete.
C28_Witness ==
    /\ ev.op = "define" /\ ev.t = "A" /\ ev.via /\ ev.ofirst
    /\ ev.res = "AlreadyDefined" /\ ev.ores = "err"
    /\ firstDefine["x-one"] = "Ok"
    /\ \A d \in RegistryGet(registry, "x-one") : d.typ = "A"
    /\ once["A"] = "Complete" /\ defineViaOnce["A"] = 1

\* C29: a define() that returns AlreadyDefined has done nothing: the
\* registry is as it was, the script of the shim class was not run and no
\* factory closure was made, no element was constructed or upgraded, no hook
\* was started and no handle was returned.
C29_AlreadyDefinedHasNoEffect ==
    [][(ev'.op = "define" /\ ev'.res = "AlreadyDefined")
        => /\ registry' = registry
           /\ ~ev'.script /\ ev'.handle = None
           /\ elems' = elems /\ stack' = stack
           /\ ~ev'.via => once' = once]_vars

\* A direct define() of a registered name, with an element of the name in
\* the page, has returned AlreadyDefined.
C29_Witness ==
    /\ ev.op = "define" /\ ~ev.via /\ ev.res = "AlreadyDefined"
    /\ \E e \in Elems : elems[e].tag = element_name[ev.t] /\ elems[e].st = "custom"

\* C30: the two forms of a hook run under exclusive access to the instance:
\* while a hook of an instance runs (its read-only form, its mutating form,
\* or between the two) the instance is borrowed and no other hook of that
\* instance is running, whatever callbacks its handlers cause on their own
\* element.
C30_ExclusiveAccess ==
    \A i \in HookFrames(stack) :
       /\ elems[stack[i].e].borrowed
       /\ stack[i].form \in 1..2
       /\ \A j \in HookFrames(stack) :
             j # i => stack[j].inst # stack[i].inst /\ stack[j].e # stack[i].e

\* The connected handler of an element has dispatched an observed event to
\* its own element, which has the listener: no handle_event runs.
C30_Witness ==
    /\ ev.op = "deliver" /\ ev.n \in ListenersOn(elems[ev.e], ev.tg)
    /\ Len(stack) = 1 /\ Top.kind = "hook" /\ Top.hook = "connected" /\ Top.e = ev.e

\* C31: the listeners of an instance are installed once, by the
\* constructor, when the last init form has returned: only that step
\* changes the listeners of an element, it installs them for the names of
\* observed_events on an element that had none, and an element under
\* construction has none, so that an observed event delivered to it while
\* init runs dispatches nothing; a shadow root attached to an initialized
\* element leaves its listeners where they are.
C31_ListenersInstalledOnceByConstructor ==
    [][\A e \in Elems :
         /\ (elems'[e].lself # elems[e].lself \/ elems'[e].lshadow # elems[e].lshadow)
            => /\ elems[e].st = "constructing" /\ elems'[e].st = "custom"
               /\ stack # <<>> /\ Top.kind = "hook" /\ Top.hook = "init"
               /\ Top.e = e /\ Top.form = Len(FormOrder)
               /\ elems[e].lself = {} /\ elems[e].lshadow = {}
               /\ elems'[e].lself \cup elems'[e].lshadow = ObservedEvents(elems'[e].typ)
         /\ elems[e].st = "constructing" => elems[e].lself = {} /\ elems[e].lshadow = {}
         /\ (ev'.op = "deliver" /\ ev'.e = e /\ elems[e].st = "constructing")
            => stack' = stack /\ elems' = elems
         /\ (elems[e].st = "custom" /\ elems[e].shadow = "none" /\ elems'[e].shadow # "none")
            => /\ elems'[e].lself = elems[e].lself
               /\ elems'[e].lshadow = {}]_vars

\* The init handler of an element has dispatched an observed event to its
\* own element.
C31_Witness ==
    /\ ev.op = "deliver" /\ ev.tg = "self"
    /\ elems[ev.e].st = "constructing" /\ ev.n \in ObservedEvents(elems[ev.e].typ)
    /\ stack # <<>> /\ Top.kind = "hook" /\ Top.hook = "init" /\ Top.e = ev.e

\* The step is made by define_once() of type t: the call itself, or the
\* return of the define() it runs.
DefineOnceStepOf(t) ==
    \/ ev'.op = "define_once" /\ ev'.t = t
    \/ ev'.op = "define" /\ ev'.t = t /\ ev'.via

\* C32: the guards are per type.  A step of define_once() of a type leaves
\* the guard of every other type as it is, and the guard of a type moves
\* only in steps of its own define_once(); a define_once() whose guard is
\* unset can be called whatever the guard of the other type is, and it
\* registers its class unless the name is taken; when the name is taken by
\* a type of the same element_name that registered first, that type's
\* definition stays, and define_once() of the other returns normally with
\* its guard set and nothing registered.
C32_GuardsArePerType ==
  /\ [](\A u \in Types :
         (CanIssue /\ once[u] = "Incomplete")
         => ENABLED DefineOnceRun(u))
  /\ [][\A t \in Types : \A u \in Types \ {t} :
         /\ DefineOnceStepOf(t) => once'[u] = once[u]
         /\ once'[u] # once[u] => DefineOnceStepOf(u)
         /\ (ev'.op = "define" /\ ev'.t = u /\ ev'.via /\ ev'.res # "Ok")
            => IF RegistryGet(registry, element_name[u]) = {}
               THEN /\ ev'.res = "Pending"
                    /\ registry' = registry \cup {ShimClass(u)}
               ELSE /\ \E w \in Types :
                         /\ element_name[w] = element_name[u]
                         /\ RegistryGet(registry, element_name[u]) = {ShimClass(w)}
                    /\ ev'.res = "AlreadyDefined" /\ ev'.ores = "err"
                    /\ registry' = registry /\ stack' = stack /\ ~hung'
                    /\ once'[u] = "Complete"]_vars

\* A and B resolve to the same name, A has registered it, the guard of A
\* is set, and define_once() of B has just returned.
C32_Witness ==
    /\ element_name["A"] = element_name["B"]
    /\ ev.op = "define" /\ ev.t = "B" /\ ev.via /\ ev.ores = "err"
    /\ registry = {ShimClass("A")}
    /\ once = [t \in Types |-> "Complete"]

\* C33: the cell of a template type is filled only by a call that has
\* appended the fragment to the body: in every state a set cell means that
\* the fragment was rendered and is in the body, a get_id() that returns
\* Some finds it there, the step that sets the cell is the step that
\* inserts the fragment, and a call that rendered without inserting leaves
\* the cell unset and does not return.
C33_CachedOnlyAfterInsertion ==
    [][\A t \in Templates :
         /\ IsInitialized(tpl'.cell[t])
            => Appended(t)' >= 1 /\ tpl'.renders[t] >= 1
         /\ \A i \in TemplateCalls("get_id", t)' :
               tpl'.log[i].res # OptNone => Appended(t)' >= 1
         /\ tpl'.cell[t] # tpl.cell[t]
            => /\ ~IsInitialized(tpl.cell[t])
               /\ tpl'.body = AppendChild(tpl.body, t)
               /\ tpl'.cell[t] = OptSome(tpl.id[t])
         /\ (tpl'.renders[t] # tpl.renders[t] /\ Appended(t)' = Appended(t))
            => /\ tpl'.cell[t] = OptNone
               /\ ~tpl'.log[Len(tpl'.log)].ret]_vars

\* define_once() of T2 found no body and aborted; the body was parsed,
\* define_once() of T1 inserted its fragment, and get_id() of T1 returns
\* Some while the cell of T2 is unset.
C33_Witness ==
    /\ tpl.phase = "run" /\ Len(tpl.log) = 3
    /\ tpl.log[1] = TemplateCall("define_once", "T2", FALSE, OptNone)
    /\ tpl.log[3].op = "get_id" /\ tpl.log[3].t = "T1" /\ tpl.log[3].res # OptNone
    /\ tpl.cell["T2"] = OptNone /\ tpl.body = <<"T1">>

\* C34: the generator of the derive crate resolves the names as the
\* current generator does: without a class_name override the class name is
\* the name of the struct, without an element_name override the element
\* name is the lower-cased kebab-case form of the class name, and without
\* an observed_attrs override the observed attributes are the empty list.
C34_DeriveResolvesLikeCurrent ==
    gen.phase \in {"generated", "defined"}
    => LET current == GetClassAndElementNames(gen.args, gen.struct_name)
       IN /\ ~IsSome(gen.args.class_name)
             => /\ GeneratedClassName(gen.config) = gen.struct_name
                /\ gen.config.class_name = current.class_name
          /\ ~IsSome(gen.args.element_name)
             => /\ GeneratedElementName(gen.config) =
                      ToLowercase(ToKebabCase(GeneratedClassName(gen.config)))
                /\ gen.config.element_name = current.element_name
          /\ ~IsSome(gen.args.observed_attrs)
             => /\ EvalJsArray(LiteralValue(gen.config.observed_attributes)) = {}
                /\ gen.config.observed_attributes = current.observed_attributes

====
